---- MODULE Spec2Model ----
(***************************************************************************)
(* Verification model of PolGen-RVC:                                       *)
(*   - the synthesizer of src/src/infer_pack/models.py (constructor of     *)
(*     the NSF generator, SynthesizerTrnMsNSFsid.infer, Generator and      *)
(*     GeneratorNSF.forward, SineGen, the residual coupling block);        *)
(*   - the model installers of src/rvc/modules/model_management.py;        *)
(*   - the conversion controls of src/src/tabs/conversion.py and           *)
(*     src/CoverGenLite.py and the conversion request they issue.          *)
(*                                                                         *)
(* Tensors are sequences over the time axis (batch 1, one channel).        *)
(* Lengths follow the convolution arithmetic of the code exactly.  Values  *)
(* are integers: a learned layer is a fixed integer stand-in for its       *)
(* weights, tanh is tanh rounded to the nearest integer.                   *)
(***************************************************************************)
EXTENDS Integers, Sequences, FiniteSets, TLC

VARIABLES
    mod_i,        \* binding of the free name `i` read by GeneratorNSF.__init__
    dec,          \* the GeneratorNSF instance of the synthesizer (self.dec)
    ddtype,       \* SourceModuleHnNSF attribute ddtype ("unset" until first forward)
    call,         \* outcome of the last synthesizer call
    same_prev,    \* outcome of the call before it when it had the same arguments and draws
    ncalls,       \* number of forward / infer calls made on the instance
    models_fs,    \* rvc_models_dir: model name -> directory content, or NoDir
    zips,         \* zip files present on disk
    mm_call,      \* outcome of the last model-management call
    ctl,          \* values of the conversion controls of the UI
    conv,         \* the conversion request in progress
    installs,     \* installer calls running in concurrent request threads
    hubert_fs,    \* rvc_models_dir as download_and_replace_model sees it
    hubert_call,  \* download_and_replace_model calls running in request threads
    fx            \* values of the mixing and effect controls of the UI

synth_vars == <<mod_i, dec, ddtype, call, same_prev, ncalls>>
mm_vars    == <<models_fs, zips, mm_call>>
ui_vars    == <<ctl, conv>>
page_vars  == <<installs, hubert_fs, hubert_call, fx>>
vars       == <<mod_i, dec, ddtype, call, same_prev, ncalls,
                models_fs, zips, mm_call, ctl, conv,
                installs, hubert_fs, hubert_call, fx>>

----------------------------------------------------------------------------
(* Bounds *)

MaxT == 3            \* longest content / pitch sequence fed to the synthesizer
MaxCalls == 2        \* calls made on one synthesizer instance
MaxChanges == 3      \* control changes made before a conversion is requested
MaxChunks == 2       \* blocks copyfileobj writes for one downloaded model file
MaxFxChanges == 2    \* changes made to the mixing and effect controls

----------------------------------------------------------------------------
(* Generic helpers *)

RECURSIVE Prod(_)
Prod(s) == IF s = <<>> THEN 1 ELSE Head(s) * Prod(Tail(s))

Min(a, b) == IF a < b THEN a ELSE b
Max(a, b) == IF a > b THEN a ELSE b
Abs(a) == IF a < 0 THEN -a ELSE a

\* Python int(): truncation toward zero of num/den (den > 0)
IntTrunc(num, den) == IF num >= 0 THEN num \div den ELSE -((-num) \div den)

\* Python seq[start:] with a possibly negative start
PySliceFrom(seq, start) ==
    LET n == Len(seq)
        s == IF start < 0 THEN Max(n + start, 0) ELSE Min(start, n)
    IN  SubSeq(seq, s + 1, n)

\* a sequence given as a function, materialised as a tuple
Strict(s) == SubSeq(s, 1, Len(s))

\* torch.tanh rounded to the nearest integer: |tanh v| >= 0.76 for |v| >= 1
Tanh(v) == IF v > 0 THEN 1 ELSE IF v < 0 THEN -1 ELSE 0

\* F.leaky_relu on integers (negative side scaled down, sign kept)
LeakyRelu(v) == IF v >= 0 THEN v ELSE -(((-v) + 9) \div 10)

\* torch.nn.Conv1d output length; -1 when the kernel exceeds the padded input
Conv1dLen(L, k, s, p) ==
    IF L + 2 * p - k < 0 THEN -1 ELSE ((L + 2 * p - k) \div s) + 1

\* torch.nn.ConvTranspose1d output length
ConvT1dLen(L, k, s, p) == (L - 1) * s - 2 * p + k

\* in-place x += y: y must have the length of x or broadcast from length 1
AddOK(lx, ly) == ly = lx \/ ly = 1

----------------------------------------------------------------------------
(* Hyper-parameters the constructors are called with *)

Configs ==
    { [upsample_rates |-> <<2, 2>>,    upsample_kernel_sizes |-> <<4, 4>>],
      [upsample_rates |-> <<2>>,       upsample_kernel_sizes |-> <<4>>],
      [upsample_rates |-> <<2, 3>>,    upsample_kernel_sizes |-> <<4, 5>>],
      [upsample_rates |-> <<2>>,       upsample_kernel_sizes |-> <<3>>],
      [upsample_rates |-> <<1>>,       upsample_kernel_sizes |-> <<2>>],
      [upsample_rates |-> <<2, 2, 2>>, upsample_kernel_sizes |-> <<4, 4, 4>>] }

\* the configurations the synthesizer under infer is built with
InferConfigs ==
    { [upsample_rates |-> <<2, 2>>, upsample_kernel_sizes |-> <<4, 4>>],
      [upsample_rates |-> <<2>>,    upsample_kernel_sizes |-> <<4>>] }

\* len(resblock_kernel_sizes)
num_kernels == 2

Unbound == -1

\* what the module-level name `i` resolves to when GeneratorNSF.__init__
\* runs: models.py never binds it (Unbound); 0 when the importing program
\* has left a module attribute i = 0 behind
GlobalI == {Unbound, 0}
NoInstance == [built |-> FALSE]

\* self.ups: one ConvTranspose1d(k, u, padding=(k - u) // 2) per stage
Ups(cfg) ==
    [j \in 1..Len(cfg.upsample_rates) |->
        [kernel_size |-> cfg.upsample_kernel_sizes[j],
         stride      |-> cfg.upsample_rates[j],
         padding     |-> (cfg.upsample_kernel_sizes[j] - cfg.upsample_rates[j]) \div 2]]

\* self.noise_convs.  The iterable of the comprehension,
\*   [np.prod(upsample_rates[i + 1:])] * (len(upsample_rates) - 1) + [1],
\* is evaluated once, before the loop, in the scope of __init__: its `i` is
\* not the loop variable but a free (module-level) name, here bound to gi.
\* Every stage but the last therefore gets the same stride.
NoiseConvs(rates, gi) ==
    LET n  == Len(rates)
        sf == Prod(SubSeq(rates, gi + 2, n))
    IN  [j \in 1..n |->
            IF j < n
            THEN [kernel_size |-> sf * 2, stride |-> sf, padding |-> sf \div 2]
            ELSE [kernel_size |-> 1, stride |-> 1, padding |-> 0]]

\* GeneratorNSF.__init__: "NameError" when `i` is unbound (the module never
\* binds it); "TypeError" when the slice is empty, np.prod gives the float
\* 1.0 and Conv1d gets a float kernel size; otherwise the instance.
\* is_half is only stored (in m_source); nn.Linear creates float32 weights.
NSFInit(cfg, is_half, gi) ==
    LET n == Len(cfg.upsample_rates) IN
    IF gi = Unbound THEN [built |-> FALSE, error |-> "NameError"]
    ELSE IF n > 1 /\ gi + 1 >= n THEN [built |-> FALSE, error |-> "TypeError"]
    ELSE [built |-> TRUE,
          num_upsamples |-> n,
          ups |-> Ups(cfg),
          noise_convs |-> NoiseConvs(cfg.upsample_rates, gi),
          resblocks |-> n * num_kernels,
          upp |-> Prod(cfg.upsample_rates),
          is_half |-> is_half,
          weight_dtype |-> "float32",
          cfg |-> cfg]

\* Generator.__init__
GenInit(cfg) ==
    [built |-> TRUE,
     num_upsamples |-> Len(cfg.upsample_rates),
     ups |-> Ups(cfg),
     resblocks |-> Len(cfg.upsample_rates) * num_kernels,
     cfg |-> cfg]

----------------------------------------------------------------------------
(* Excitation source: SineGen and SourceModuleHnNSF *)

\* SineGen defaults, in thousandths
sine_amp == 100
noise_std == 3
voiced_threshold == 0

\* torch.randn draw number k of a run with the given seed
Randn(seed, k) == IF (k + seed) % 2 = 0 THEN 3 ELSE -3

\* variant: a frame at the threshold counted as voiced
F02uv_AtLeast(f0) == IF f0 >= voiced_threshold THEN 1 ELSE 0

\* SineGen._f02uv on one frame
F02uv(f0) == IF f0 > voiced_threshold THEN 1 ELSE 0

\* sin(2 pi cumsum(rad_values)) of sample k, rounded to a sign
SinAt(k) == IF k % 2 = 1 THEN 1 ELSE -1

\* SineGen.forward: one value per output sample, upp samples per f0 frame.
\* rand_ini is drawn and then zeroed for the fundamental (dim = 1), so the
\* initial-phase draw never reaches the output.
SineGenForward(f0, upp, seed) ==
    Strict([k \in 1..(Len(f0) * upp) |->
        LET uv        == F02uv(f0[((k - 1) \div upp) + 1])
            noise_amp == uv * noise_std + (1 - uv) * (sine_amp \div 3)
            noise     == noise_amp * Randn(seed, k)
        IN  [sine_waves |-> SinAt(k) * sine_amp * uv + noise,
             uv |-> uv, noise |-> noise]])

\* variant: ddtype rewritten on every call with the dtype of the input
SourceDdtype_Overwrite(old, inst) ==
    IF old = "unset" THEN inst.weight_dtype ELSE "float64"

\* SourceModuleHnNSF.forward, the attribute part: ddtype is set on first use
SourceDdtype(old, inst) == IF old = "unset" THEN inst.weight_dtype ELSE old

\* tensor.to(dtype) on the integer stand-ins: float16 keeps 11 bits
ToDtype(v, dtype) == IF dtype = "float16" /\ Abs(v) > 2048 THEN (v \div 2) * 2 ELSE v

\* variant: the call that creates ddtype returns the raw sine waves
SourceForward_FirstRaw(inst, dd, f0, upp, seed) ==
    LET sg == SineGenForward(f0, upp, seed)
    IN  Strict([k \in 1..Len(sg) |->
            IF dd = "unset" THEN sg[k].sine_waves ELSE Tanh(sg[k].sine_waves)])

\* SourceModuleHnNSF.forward, the value part: sine_wavs (float32) is cast to
\* the cached ddtype when that differs, then tanh(l_linear(sine_wavs))
SourceForward(inst, dd, f0, upp, seed) ==
    LET sg  == SineGenForward(f0, upp, seed)
        ddt == SourceDdtype(dd, inst)
    IN  Strict([k \in 1..Len(sg) |->
            Tanh(IF ddt # "float32" THEN ToDtype(sg[k].sine_waves, ddt)
                 ELSE sg[k].sine_waves)])

----------------------------------------------------------------------------
(* Generator and GeneratorNSF forward *)

\* one residual block (stand-in for its weights): distinct per index
ResBlock(idx, v) == v + idx

\* the indices i * num_kernels + j, j in range(num_kernels), that stage i
\* (0-based) takes from self.resblocks
ResBlocksOf_Shared(i) == Strict([j \in 1..num_kernels |-> j - 1])

ResBlocksOf(i) == Strict([j \in 1..num_kernels |-> i * num_kernels + (j - 1)])

\* x_source over the blocks of stage i, from the j-th (0-based) on
RECURSIVE ResSum(_, _, _)
ResSum(i, j, v) ==
    IF j >= num_kernels THEN 0
    ELSE ResBlock(ResBlocksOf(i)[j + 1], v) + ResSum(i, j + 1, v)

\* x = x_source / self.num_kernels
ResAvg(i, x) == Strict([t \in 1..Len(x) |-> ResSum(i, 0, x[t]) \div num_kernels])

\* self.ups[i](leaky_relu(x))
UpForward(c, x) ==
    Strict([t \in 1..ConvT1dLen(Len(x), c.kernel_size, c.stride, c.padding) |->
        LeakyRelu(x[Min(((t - 1) \div c.stride) + 1, Len(x))])])

\* self.noise_convs[i](har_source); <<>> stands for the RuntimeError of a
\* kernel larger than the padded input
NoiseConvForward(c, har) ==
    LET n == Conv1dLen(Len(har), c.kernel_size, c.stride, c.padding)
    IN  IF n < 1 THEN <<>>
        ELSE Strict([t \in 1..n |-> har[Min((t - 1) * c.stride + 1, Len(har))]])

\* conv_post (stand-in weight 3)
ConvPost(v) == 3 * v

\* variant: the final tanh left out
PostForward_NoTanh(x) == Strict([t \in 1..Len(x) |-> ConvPost(LeakyRelu(x[t]))])

\* return torch.tanh(self.conv_post(F.leaky_relu(x)))
PostForward(x) == Strict([t \in 1..Len(x) |-> Tanh(ConvPost(LeakyRelu(x[t])))])

\* `g is None`
NoG == -1

\* self.cond(g) (stand-in: weight 1, bias 1)
Cond(g) == g + 1

\* conv_pre (kernel 7, padding 3: length kept) mixes the channels of a
\* latent frame; cond(g) is added when g is given
PreForward(x, g) ==
    Strict([t \in 1..Len(x) |->
        x[t][1] + x[t][2] + (IF g = NoG THEN 0 ELSE Cond(g))])

\* the calls forward makes before the upsampling loop, in program order
PreOps(g) ==
    <<"m_source", "conv_pre">> \o (IF g = NoG THEN <<>> ELSE <<"cond">>)

\* variant: the conditioning added again inside every iteration
NSFStage_CondEach(inst, i, x, har, g) ==
    LET up == UpForward(inst.ups[i], x)
        nz == NoiseConvForward(inst.noise_convs[i], har)
        ok == nz # <<>> /\ AddOK(Len(up), Len(nz))
        xin == IF ok
               THEN Strict([t \in 1..Len(up) |->
                        up[t] + nz[IF Len(nz) = 1 THEN 1 ELSE t]
                              + (IF g = NoG THEN 0 ELSE Cond(g))])
               ELSE <<>>
    IN  [status |-> IF ok THEN "ok" ELSE "RuntimeError",
         stage  |-> i, up_len |-> Len(up), nz_len |-> Len(nz),
         ops    |-> <<"leaky_relu", "ups", "noise_convs">>
                        \o (IF g = NoG THEN <<>> ELSE <<"cond">>)
                        \o <<"resblocks">>,
         blocks |-> IF ok THEN ResBlocksOf(i - 1) ELSE <<>>,
         xin    |-> xin,
         x      |-> IF ok THEN ResAvg(i - 1, xin) ELSE <<>>]

\* one iteration (stage i, 1-based) of the loop of GeneratorNSF.forward:
\* leaky_relu, ups[i], `x += noise_convs[i](har_source)` (RuntimeError when
\* the lengths do not broadcast), then the residual blocks averaged.  g is
\* in scope but not used by the loop body.
NSFStage(inst, i, x, har, g) ==
    LET up == UpForward(inst.ups[i], x)
        nz == NoiseConvForward(inst.noise_convs[i], har)
        ok == nz # <<>> /\ AddOK(Len(up), Len(nz))
        xin == IF ok
               THEN Strict([t \in 1..Len(up) |->
                        up[t] + nz[IF Len(nz) = 1 THEN 1 ELSE t]])
               ELSE <<>>
    IN  [status |-> IF ok THEN "ok" ELSE "RuntimeError",
         stage  |-> i, up_len |-> Len(up), nz_len |-> Len(nz),
         ops    |-> <<"leaky_relu", "ups", "noise_convs", "resblocks">>,
         blocks |-> IF ok THEN ResBlocksOf(i - 1) ELSE <<>>,
         xin    |-> xin,
         x      |-> IF ok THEN ResAvg(i - 1, xin) ELSE <<>>]

\* the upsampling loop of GeneratorNSF.forward from stage i on; done holds
\* the iterations already made
RECURSIVE NSFStages(_, _, _, _, _, _)
NSFStages(inst, i, x, har, g, done) ==
    IF i > inst.num_upsamples THEN [status |-> "ok", x |-> x, stages |-> done]
    ELSE LET s == NSFStage(inst, i, x, har, g)
         IN  IF s.status # "ok"
             THEN [status |-> s.status, x |-> <<>>, stages |-> Append(done, s)]
             ELSE NSFStages(inst, i + 1, s.x, har, g, Append(done, s))

\* GeneratorNSF.forward(x, f0, g)
NSFForward(inst, dd, x, f0, g, seed) ==
    LET har == SourceForward(inst, dd, f0, inst.upp, seed)
        r   == NSFStages(inst, 1, PreForward(x, g), har, g, <<>>)
    IN  [status |-> r.status,
         o |-> IF r.status = "ok" THEN PostForward(r.x) ELSE <<>>,
         pre_ops |-> PreOps(g), stages |-> r.stages]

\* one iteration of the loop of Generator.forward
GenStage(inst, i, x) ==
    LET up == UpForward(inst.ups[i], x)
    IN  [status |-> "ok", stage |-> i, up_len |-> Len(up), nz_len |-> Len(up),
         ops    |-> <<"leaky_relu", "ups", "resblocks">>,
         blocks |-> ResBlocksOf(i - 1),
         xin    |-> up,
         x      |-> ResAvg(i - 1, up)]

\* the upsampling loop of Generator.forward
RECURSIVE GenStages(_, _, _, _)
GenStages(inst, i, x, done) ==
    IF i > inst.num_upsamples THEN [x |-> x, stages |-> done]
    ELSE LET s == GenStage(inst, i, x)
         IN  GenStages(inst, i + 1, s.x, Append(done, s))

\* Generator.forward(x, g)
GenForward(inst, x, g) ==
    LET r == GenStages(inst, 1, PreForward(x, g), <<>>)
    IN  [status |-> "ok", o |-> PostForward(r.x),
         pre_ops |-> Tail(PreOps(g)), stages |-> r.stages]

----------------------------------------------------------------------------
(* ResidualCouplingBlock *)

\* n_flows default of ResidualCouplingBlock.__init__
n_flows == 4

\* self.flows = ModuleList([ResidualCouplingLayer(...), Flip()] * n_flows):
\* pos is the index in the list (1-based)
Flows ==
    Strict([j \in 1..(2 * n_flows) |->
        [pos |-> j, kind |-> IF j % 2 = 1 THEN "coupling" ELSE "flip"]])

\* the mean a coupling layer computes from the first half of the channels
\* and the speaker conditioning: post(enc(pre(x0) * x_mask, g)) * x_mask
CouplingStats(v0, m, g) == (2 * (v0 * m) + g + 1) * m

\* modules.ResidualCouplingLayer (mean_only) on one frame <<x0, x1>>: x0 is
\* passed on, x1 is shifted by the mean and masked; reverse mode subtracts
CouplingLayer(v, m, g, reverse) ==
    IF reverse THEN <<v[1], (v[2] - CouplingStats(v[1], m, g)) * m>>
    ELSE <<v[1], CouplingStats(v[1], m, g) + v[2] * m>>

\* modules.Flip on one frame: the channel order reversed, in both modes
Flip(v) == <<v[2], v[1]>>

\* variant: every step run in forward mode, whatever the flag
FlowStep_ForwardOnly(step, v, m, g, reverse) ==
    IF step.kind = "coupling" THEN CouplingLayer(v, m, g, FALSE) ELSE Flip(v)

\* flow(x, x_mask, g=g, reverse=reverse) on one frame
FlowStep(step, v, m, g, reverse) ==
    IF step.kind = "coupling" THEN CouplingLayer(v, m, g, reverse) ELSE Flip(v)

\* the loop `for flow in flows: x = flow(x, x_mask, g=g, reverse=reverse)`;
\* steps records the calls made so far
RECURSIVE FlowLoop(_, _, _, _, _, _)
FlowLoop(order, x, x_mask, g, reverse, steps) ==
    IF order = <<>> THEN [x |-> x, steps |-> steps]
    ELSE FlowLoop(Tail(order),
                  Strict([t \in 1..Len(x) |->
                      FlowStep(Head(order), x[t], x_mask[t], g, reverse)]),
                  x_mask, g, reverse,
                  Append(steps, [pos |-> Head(order).pos, kind |-> Head(order).kind,
                                 reverse |-> reverse]))

Reversed(s) == Strict([j \in 1..Len(s) |-> s[Len(s) + 1 - j]])

\* variant: the list is walked front to back in both modes
FlowOrder_ListOrder(reverse) == Flows

\* flows = reversed(self.flows) if reverse else self.flows
FlowOrder(reverse) == IF reverse THEN Reversed(Flows) ELSE Flows

\* ResidualCouplingBlock.forward: the tensor returned and the calls made
FlowRun(x, x_mask, g, reverse) ==
    FlowLoop(FlowOrder(reverse), x, x_mask, g, reverse, <<>>)

\* ResidualCouplingBlock.forward on a sequence of frames
FlowForward(x, x_mask, g, reverse) == FlowRun(x, x_mask, g, reverse).x

----------------------------------------------------------------------------
(* SynthesizerTrnMsNSFsid.infer *)

NoRate == [given |-> FALSE, num |-> 0, den |-> 1]

\* the values of `rate` tried: None, 1/3, 1/2, 1, -1/2
Rates ==
    { NoRate } \cup
    { [given |-> TRUE, num |-> r[1], den |-> r[2]] :
        r \in { <<1, 3>>, <<1, 2>>, <<1, 1>>, <<-1, 2>> } }

\* arguments and random draws of one infer call: T content frames of which
\* plen are valid (all, or all but the last), P pitch frames (as many as
\* content frames, or one more), speaker sid, rate, and the seed of the
\* random generator
InferInputs ==
    { [T |-> T, plen |-> Max(T - short, 1), P |-> Min(T + more, MaxT),
       voicing |-> "mixed", sid |-> 0, rate |-> r, seed |-> sd] :
        T \in 1..MaxT, short \in {0, 1}, more \in {0, 1},
        r \in Rates, sd \in {0, 1} }

\* nsff0: frame t of the pitch curve (0 = unvoiced)
F0At(voicing, t) == IF voicing = "mixed" /\ t % 2 = 1 THEN 0 ELSE 220

\* commons.sequence_mask(lengths, T)
SequenceMask(lengths, T) == Strict([t \in 1..T |-> IF t <= lengths THEN 1 ELSE 0])

\* TextEncoder.forward: stats = proj(encoder(...)) * x_mask, split into
\* (m, logs), two channels each; frame t of the content is identified by t
TextEncoderForward(T, lengths) ==
    LET x_mask == SequenceMask(lengths, T)
    IN  [m      |-> Strict([t \in 1..T |-> <<(t + 1) * x_mask[t], (0 - t) * x_mask[t]>>]),
         logs   |-> Strict([t \in 1..T |-> <<0 * x_mask[t], 0 * x_mask[t]>>]),
         x_mask |-> x_mask]

\* torch.exp on the integer log-scales that occur
Exp(l) == IF l <= 0 THEN 1 ELSE 3

\* draw * 0.66666
NoiseScale(v) == IntTrunc(v * 66666, 100000)

\* head = int(z_p.shape[2] * rate)
Head_(T, rate) == IntTrunc(T * rate.num, rate.den)

\* `if rate:` -- None and 0 are both falsy
Truthy(rate) == rate.given /\ rate.num # 0

\* a tensor with its frames tagged by their position in the untruncated input
Tagged(x) == Strict([t \in 1..Len(x) |-> [i |-> t, v |-> x[t]]])
Vals(x)   == Strict([t \in 1..Len(x) |-> x[t].v])
Idx(x)    == Strict([t \in 1..Len(x) |-> x[t].i])

\* variant: the pitch cut from the front, nsff0[:, :head]
SlicePitch_Front(x, head) == SubSeq(x, 1, Min(Max(head, 0), Len(x)))

\* the slice applied to nsff0 when rate is given
SlicePitch(x, head) == PySliceFrom(x, -head)

\* variant: the sampled latent left unmasked
SampleLatent_NoMask(enc, seed) ==
    Strict([t \in 1..Len(enc.m) |->
        LET ch(c) == enc.m[t][c] + Exp(enc.logs[t][c])
                                     * NoiseScale(Randn(seed, 2 * (t - 1) + c))
        IN  <<ch(1), ch(2)>>])

\* z_p = (m_p + torch.exp(logs_p) * torch.randn_like(m_p) * 0.66666) * x_mask
SampleLatent(enc, seed) ==
    Strict([t \in 1..Len(enc.m) |->
        LET ch(c) == (enc.m[t][c] + Exp(enc.logs[t][c])
                                      * NoiseScale(Randn(seed, 2 * (t - 1) + c)))
                        * enc.x_mask[t]
        IN  <<ch(1), ch(2)>>])

\* SynthesizerTrnMsNSFsid.infer up to the decoder call: the tensors handed
\* to self.flow and self.dec
InferPrepare(inp) ==
    LET enc   == TextEncoderForward(inp.T, inp.plen)
        z_p0  == SampleLatent(enc, inp.seed)
        f0    == Strict([t \in 1..inp.P |-> F0At(inp.voicing, t)])
        head  == Head_(inp.T, inp.rate)
        cut   == Truthy(inp.rate)
    IN  [z_p    |-> IF cut THEN PySliceFrom(Tagged(z_p0), -head) ELSE Tagged(z_p0),
         x_mask |-> IF cut THEN PySliceFrom(Tagged(enc.x_mask), -head) ELSE Tagged(enc.x_mask),
         nsff0  |-> IF cut THEN SlicePitch(Tagged(f0), head) ELSE Tagged(f0),
         m_p    |-> enc.m,
         truncated |-> cut,
         head   |-> head]

\* SynthesizerTrnMsNSFsid.infer: the value returned, or the error raised;
\* dec_in is z * x_mask, the first argument of self.dec
InferResult(inst, dd, inp) ==
    LET pre == InferPrepare(inp)
        g   == inp.sid
        xm  == Vals(pre.x_mask)
        z   == FlowForward(Vals(pre.z_p), xm, g, TRUE)
        zin == Strict([t \in 1..Len(z) |-> <<z[t][1] * xm[t], z[t][2] * xm[t]>>])
        d   == NSFForward(inst, dd, zin, Vals(pre.nsff0), g, inp.seed)
    IN  [op |-> "infer", inp |-> inp, status |-> d.status, o |-> d.o,
         z_p |-> pre.z_p, x_mask |-> pre.x_mask, nsff0 |-> pre.nsff0,
         z |-> z, dec_in |-> zin,
         truncated |-> pre.truncated, head |-> pre.head,
         T |-> inp.T, P |-> inp.P,
         ddtype_before |-> dd, dec_before |-> inst]

----------------------------------------------------------------------------
(* Synthesizer: state machine *)

NoCall == [op |-> "none"]

\* latent value of frame t handed directly to a generator
LatAt(pat, t) ==
    CASE pat = "zero" -> 0
      [] pat = "pos"  -> 5
      [] pat = "neg"  -> -5
      [] OTHER        -> IF t % 2 = 1 THEN 7 ELSE -7

LatPatterns == {"zero", "pos", "neg", "alt"}

InitSynth ==
    /\ mod_i \in GlobalI
    /\ dec = NoInstance
    /\ ddtype = "unset"
    /\ call = NoCall
    /\ same_prev = NoCall
    /\ ncalls = 0

\* SynthesizerTrnMsNSFsid.__init__ -> GeneratorNSF.__init__
Construct(cfg, is_half) ==
    /\ ~dec.built
    /\ call.op = "none"
    /\ dec' = NSFInit(cfg, is_half, mod_i)
    /\ call' = [op |-> "construct", cfg |-> cfg, is_half |-> is_half,
                status |-> IF dec'.built THEN "ok" ELSE dec'.error]
    /\ ddtype' = "unset"
    /\ same_prev' = NoCall
    /\ UNCHANGED <<mod_i, ncalls, mm_vars, ui_vars, page_vars>>

\* SynthesizerTrnMsNSFsid.infer
Infer(inp) ==
    /\ dec.built
    /\ ncalls < MaxCalls
    /\ ncalls' = ncalls + 1
    /\ call' = InferResult(dec, ddtype, inp)
    /\ ddtype' = SourceDdtype(ddtype, dec)
    /\ same_prev' = IF call.op = "infer" /\ call.inp = inp THEN call ELSE NoCall
    /\ UNCHANGED <<mod_i, dec, mm_vars, ui_vars, page_vars>>

\* the conditioning passed to a generator called directly: None or a speaker
DecG == {NoG, 1}

\* GeneratorNSF.forward called directly with T latent and P pitch frames
DecForward(T, P, pat, voicing, seed, g) ==
    /\ dec.built
    /\ ncalls < MaxCalls
    /\ ncalls' = ncalls + 1
    /\ LET x  == Strict([t \in 1..T |-> <<LatAt(pat, t), 0>>])
           f0 == Strict([t \in 1..P |-> F0At(voicing, t)])
           r  == NSFForward(dec, ddtype, x, f0, g, seed)
       IN  call' = [op |-> "nsf_forward", T |-> T, P |-> P, pat |-> pat, g |-> g,
                    status |-> r.status, o |-> r.o,
                    pre_ops |-> r.pre_ops, stages |-> r.stages,
                    resblocks |-> dec.resblocks]
    /\ ddtype' = SourceDdtype(ddtype, dec)
    /\ same_prev' = NoCall
    /\ UNCHANGED <<mod_i, dec, mm_vars, ui_vars, page_vars>>

\* Generator(...).forward(x, g): the generator without excitation
GenCall(cfg, T, pat) ==
    /\ call.op \in {"none", "gen_forward"}
    /\ LET x == Strict([t \in 1..T |-> <<LatAt(pat, t), 0>>])
           inst == GenInit(cfg)
           r == GenForward(inst, x, 0)
       IN  call' = [op |-> "gen_forward", T |-> T, cfg |-> cfg, pat |-> pat, g |-> 0,
                    status |-> r.status, o |-> r.o,
                    pre_ops |-> r.pre_ops, stages |-> r.stages,
                    resblocks |-> inst.resblocks]
    /\ same_prev' = NoCall
    /\ UNCHANGED <<mod_i, dec, ddtype, ncalls, mm_vars, ui_vars, page_vars>>

\* the pitch values a frame can carry: negative, zero (unvoiced), positive
F0Values == {-5, 0, 220}

\* the pitch curves of up to MaxT frames
RECURSIVE F0Seqs(_)
F0Seqs(n) ==
    IF n = 0 THEN { <<>> }
    ELSE LET shorter == F0Seqs(n - 1)
         IN  shorter \cup { Append(q, v) : q \in { r \in shorter : Len(r) = n - 1 },
                                            v \in F0Values }

\* the values of upp = prod(upsample_rates) tried
Upps == {1, 2, 4}

\* SineGen.forward(f0, upp) called directly
SineCall(f0, upp, seed) ==
    /\ call.op \in {"none", "sine"}
    /\ call' = [op |-> "sine", f0 |-> f0, upp |-> upp, seed |-> seed,
                status |-> "ok", out |-> SineGenForward(f0, upp, seed)]
    /\ same_prev' = NoCall
    /\ UNCHANGED <<mod_i, dec, ddtype, ncalls, mm_vars, ui_vars, page_vars>>

\* the latents handed to the flow: T frames of two channels, the first
\* plen of them valid; premasked latents are zero on the other frames
FlowInputs ==
    { [T |-> T, plen |-> T - short, pat |-> pat, premasked |-> pm, g |-> g,
       reverse |-> rev] :
        T \in 1..MaxT, short \in {0, 1}, pat \in LatPatterns \ {"zero"},
        pm \in BOOLEAN, g \in {0, 1}, rev \in BOOLEAN }

FlowLatent(inp) ==
    LET m == SequenceMask(inp.plen, inp.T)
    IN  Strict([t \in 1..inp.T |->
            IF inp.premasked THEN <<LatAt(inp.pat, t) * m[t], t * m[t]>>
            ELSE <<LatAt(inp.pat, t), t>>])

\* ResidualCouplingBlock.forward(x, x_mask, g, reverse) called directly
FlowCall(inp) ==
    /\ call.op \in {"none", "flow"}
    /\ LET x == FlowLatent(inp)
           m == SequenceMask(inp.plen, inp.T)
           r == FlowRun(x, m, inp.g, inp.reverse)
       IN  call' = [op |-> "flow", x |-> x, x_mask |-> m, g |-> inp.g,
                    reverse |-> inp.reverse, status |-> "ok",
                    out |-> r.x, steps |-> r.steps,
                    chained |-> FALSE, orig |-> x]
    /\ same_prev' = NoCall
    /\ UNCHANGED <<mod_i, dec, ddtype, ncalls, mm_vars, ui_vars, page_vars>>

\* the result of the last call handed back to the flow in the other mode,
\* with the same mask and conditioning
FlowBack ==
    /\ call.op = "flow"
    /\ ~call.chained
    /\ LET r == FlowRun(call.out, call.x_mask, call.g, ~call.reverse)
       IN  call' = [op |-> "flow", x |-> call.out, x_mask |-> call.x_mask,
                    g |-> call.g, reverse |-> ~call.reverse, status |-> "ok",
                    out |-> r.x, steps |-> r.steps,
                    chained |-> TRUE, orig |-> call.x]
    /\ same_prev' = NoCall
    /\ UNCHANGED <<mod_i, dec, ddtype, ncalls, mm_vars, ui_vars, page_vars>>

ConstructAny == \E cfg \in Configs, h \in BOOLEAN : Construct(cfg, h)
ConstructFloat == \E cfg \in InferConfigs : Construct(cfg, FALSE)
InferAny == \E inp \in InferInputs : Infer(inp)
DecForwardAny ==
    \E T \in 1..MaxT, pat \in LatPatterns, sd \in {0, 1}, g \in DecG :
        \E P \in {T, Min(T + 1, MaxT)} : DecForward(T, P, pat, "mixed", sd, g)
GenCallAny == \E cfg \in Configs, T \in 1..MaxT, pat \in LatPatterns : GenCall(cfg, T, pat)
SineCallAny == \E f0 \in F0Seqs(MaxT) \ { <<>> }, upp \in Upps, sd \in {0, 1} : SineCall(f0, upp, sd)
FlowCallAny == \E inp \in FlowInputs : FlowCall(inp)

NextInfer == ConstructFloat \/ InferAny
NextDec == ConstructAny \/ DecForwardAny \/ GenCallAny
NextSine == SineCallAny
NextFlow == FlowCallAny \/ FlowBack

----------------------------------------------------------------------------
(* Model management: src/rvc/modules/model_management.py *)

\* names typed into the 'model name' box
ModelNames == {"a", "b"}

\* size thresholds of extract_zip, in KB
IndexMinKB == 100
ModelMinKB == 40960

NoDir  == [exists |-> FALSE, files |-> {}]
NoFile == [exists |-> FALSE, archive |-> [valid |-> FALSE, files |-> {}]]

File(dir, base, ext, kb) == [dir |-> dir, base |-> base, ext |-> ext, kb |-> kb]

\* the zip archives offered: model and index at top level; everything in a
\* sub-folder; a .pth that is too small; a model in a sub-folder next to a
\* small file of the same name and an index at top level; a model with an
\* index that is too small; and a file that is no zip at all
Archives ==
    { [valid |-> TRUE,  files |-> {File("", "m", "pth", 50000), File("", "x", "index", 500)}],
      [valid |-> TRUE,  files |-> {File("sub", "m", "pth", 50000), File("sub", "x", "index", 500),
                                   File("sub", "readme", "txt", 10)}],
      [valid |-> TRUE,  files |-> {File("", "m", "pth", 500)}],
      [valid |-> TRUE,  files |-> {File("sub", "m", "pth", 50000), File("", "m", "pth", 500),
                                   File("", "x", "index", 500)}],
      [valid |-> TRUE,  files |-> {File("sub", "m", "pth", 50000), File("sub", "x", "index", 50)}],
      [valid |-> FALSE, files |-> {}] }

\* download links: a supported host serving an archive, a supported host
\* whose download fails, and a host download_file has no branch for
Urls ==
    { [host |-> "huggingface.co", fails |-> FALSE, archive |-> a] : a \in Archives } \cup
    { [host |-> "huggingface.co", fails |-> TRUE,  archive |-> NoFile.archive],
      [host |-> "example.com",    fails |-> FALSE, archive |-> NoFile.archive] }

SupportedHosts ==
    {"drive.google.com", "huggingface.co", "pixeldrain.com", "mega.nz", "yadi.sk", "disk.yandex.ru"}

SamePath(f, g) == f.dir = g.dir /\ f.base = g.base /\ f.ext = g.ext

\* files written over a directory: same path replaces
Overwrite(old, new) == {f \in old : \A g \in new : ~SamePath(f, g)} \cup new

\* variant: the file found by the walk is left where it was extracted
MoveToTop_LeftInPlace(all, f) == all

\* os.rename(path, join(extraction_folder, basename(path)))
MoveToTop(all, f) ==
    LET top == [f EXCEPT !.dir = ""]
    IN  {g \in all : ~SamePath(g, f) /\ ~SamePath(g, top)} \cup {top}

\* the file the os.walk loop leaves in its variable: the walk visits the
\* top folder first and the sub-folders after it, the last match wins
WalkLast(S) ==
    IF \E f \in S : f.dir # "" THEN CHOOSE f \in S : f.dir # ""
    ELSE CHOOSE f \in S : TRUE

\* the second half of extract_zip, on the files found in the folder: the
\* walk for the model and the index, the check, the two renames and the
\* removal of the sub-folders
TidyFolder(all) ==
    LET indexes == {f \in all : f.ext = "index" /\ f.kb > IndexMinKB}
        models  == {f \in all : f.ext = "pth" /\ f.kb > ModelMinKB}
    IN  IF models = {} THEN [status |-> "NoModelFound", files |-> all]
        ELSE
          LET m1 == MoveToTop(all, WalkLast(models))
              m2 == IF indexes = {} THEN m1 ELSE MoveToTop(m1, WalkLast(indexes))
          IN  [status |-> "ok", files |-> {f \in m2 : f.dir = ""}]

\* extract_zip(extraction_folder, zip_name) on the folder d and the zip file z
ExtractZip(d, z) ==
    LET made == [exists |-> TRUE, files |-> d.files]
    IN  IF ~z.exists THEN [status |-> "FileNotFoundError", dir |-> made, zip |-> z]
        ELSE IF ~z.archive.valid THEN [status |-> "BadZipFile", dir |-> made, zip |-> z]
        ELSE
          LET r == TidyFolder(Overwrite(d.files, z.archive.files))
          IN  [status |-> r.status, dir |-> [exists |-> TRUE, files |-> r.files],
               zip |-> NoFile]

\* download_file(url, zip_name, progress): the zip file afterwards, or the
\* exception of a failed download
DownloadFile(url, z) ==
    IF url.host \notin SupportedHosts THEN [status |-> "ok", zip |-> z]
    ELSE IF url.fails THEN [status |-> "DownloadError", zip |-> z]
    ELSE [status |-> "ok", zip |-> [exists |-> TRUE, archive |-> url.archive]]

AlreadyExists == "AlreadyExists"

\* variant: the existence check left out
DownloadFromUrl_NoCheck(d, z, url) ==
    LET dl == DownloadFile(url, z)
    IN  IF dl.status # "ok" THEN [status |-> dl.status, dir |-> d, zip |-> dl.zip]
        ELSE ExtractZip(d, dl.zip)

\* download_from_url(url, dir_name): d is the model folder, z is dir_name.zip
DownloadFromUrl(d, z, url) ==
    IF d.exists THEN [status |-> AlreadyExists, dir |-> d, zip |-> z]
    ELSE LET dl == DownloadFile(url, z)
         IN  IF dl.status # "ok" THEN [status |-> dl.status, dir |-> d, zip |-> dl.zip]
             ELSE ExtractZip(d, dl.zip)

\* upload_zip_model(zip_path, dir_name): up is the uploaded file (or none)
UploadZipModel(d, up) ==
    IF d.exists THEN [status |-> AlreadyExists, dir |-> d, zip |-> up]
    ELSE IF ~up.exists THEN [status |-> "AttributeError", dir |-> d, zip |-> up]
    ELSE ExtractZip(d, up)

\* upload_separate_files(pth_file, index_file, dir_name)
UploadSeparateFiles(d, pth_file, index_file) ==
    IF d.exists THEN [status |-> AlreadyExists, dir |-> d]
    ELSE [status |-> "ok",
          dir |-> [exists |-> TRUE,
                   files |-> (IF pth_file THEN {File("", "m", "pth", 50000)} ELSE {})
                             \cup (IF index_file THEN {File("", "x", "index", 500)} ELSE {})]]

\* get_folders(rvc_models_dir) as used by update_models_list
GetFolders == {n \in ModelNames : models_fs[n].exists}

\* request threads of the page that may run an installer at the same time
Threads == {1, 2}

InitMM ==
    /\ models_fs = [n \in ModelNames |-> NoDir]
    /\ zips = [n \in ModelNames |-> NoFile]
    /\ mm_call = NoCall
    /\ installs = [p \in Threads |->
                      [pc |-> "idle", op |-> "none", name |-> "", status |-> "none"]]

download_from_url(url, dir_name) ==
    /\ LET r == DownloadFromUrl(models_fs[dir_name], zips[dir_name], url)
       IN  /\ models_fs' = [models_fs EXCEPT ![dir_name] = r.dir]
           /\ zips' = [zips EXCEPT ![dir_name] = r.zip]
           /\ mm_call' = [op |-> "download_from_url", name |-> dir_name,
                          status |-> r.status, upload_left |-> FALSE,
                          archive |-> DownloadFile(url, zips[dir_name]).zip.archive,
                          zip_left |-> r.zip.exists]
    /\ UNCHANGED <<synth_vars, ui_vars, page_vars>>

upload_zip_model(up, dir_name) ==
    /\ LET r == UploadZipModel(models_fs[dir_name], up)
       IN  /\ models_fs' = [models_fs EXCEPT ![dir_name] = r.dir]
           /\ mm_call' = [op |-> "upload_zip_model", name |-> dir_name,
                          status |-> r.status, upload_left |-> r.zip.exists,
                          archive |-> up.archive, zip_left |-> r.zip.exists]
    /\ UNCHANGED <<zips, synth_vars, ui_vars, page_vars>>

upload_separate_files(pth_file, index_file, dir_name) ==
    /\ LET r == UploadSeparateFiles(models_fs[dir_name], pth_file, index_file)
       IN  /\ models_fs' = [models_fs EXCEPT ![dir_name] = r.dir]
           /\ mm_call' = [op |-> "upload_separate_files", name |-> dir_name,
                          status |-> r.status, upload_left |-> FALSE,
                          archive |-> NoFile.archive, zip_left |-> FALSE]
    /\ UNCHANGED <<zips, synth_vars, ui_vars, page_vars>>

Uploads == {[exists |-> TRUE, archive |-> a] : a \in Archives} \cup {NoFile}

NextMM ==
    \/ \E u \in Urls, n \in ModelNames : download_from_url(u, n)
    \/ \E up \in Uploads, n \in ModelNames : upload_zip_model(up, n)
    \/ \E p \in BOOLEAN, x \in BOOLEAN, n \in ModelNames : upload_separate_files(p, x, n)

----------------------------------------------------------------------------
(* The installers running in concurrent request threads.  Each action is   *)
(* one file-system call of the code; extract_zip's walk, renames and       *)
(* rmtree are taken as one step.                                           *)

\* what thread p installs: thread 1 brings m1.pth and x1.index at the top of
\* its archive, thread 2 brings m2.pth and x2.index in a sub-folder
PthOf(p, dir)   == File(dir, IF p = 1 THEN "m1" ELSE "m2", "pth", 50000)
IndexOf(p, dir) == File(dir, IF p = 1 THEN "x1" ELSE "x2", "index", 500)
OwnArchive(p)   ==
    LET sub == IF p = 1 THEN "" ELSE "sub"
    IN  [valid |-> TRUE, files |-> {PthOf(p, sub), IndexOf(p, sub)}]

Goto(p, pc)     == installs' = [installs EXCEPT ![p].pc = pc]
Ends(p, status) == installs' = [installs EXCEPT ![p].pc = "done", ![p].status = status]

\* a click on one of the three install buttons
InstallBegin(p, op, dir_name) ==
    /\ installs[p].pc = "idle"
    /\ installs' = [installs EXCEPT ![p] = [pc |-> "exists", op |-> op, name |-> dir_name,
                                     status |-> "running"]]
    /\ UNCHANGED <<models_fs, zips, mm_call, synth_vars, ui_vars, hubert_fs, hubert_call, fx>>

\* if os.path.exists(extraction_folder): raise gr.Error(...)
InstallExists(p) ==
    /\ installs[p].pc = "exists"
    /\ IF models_fs[installs[p].name].exists THEN Ends(p, AlreadyExists)
       ELSE IF installs[p].op = "download_from_url" THEN Goto(p, "download_file")
       ELSE Goto(p, "makedirs")
    /\ UNCHANGED <<models_fs, zips, mm_call, synth_vars, ui_vars, hubert_fs, hubert_call, fx>>

\* download_file(url, zip_name, progress): both threads write dir_name.zip
InstallDownloadFile(p) ==
    /\ installs[p].pc = "download_file"
    /\ LET url == [host |-> "huggingface.co", fails |-> FALSE, archive |-> OwnArchive(p)]
       IN  zips' = [zips EXCEPT ![installs[p].name] = DownloadFile(url, @).zip]
    /\ Goto(p, "makedirs")
    /\ UNCHANGED <<models_fs, mm_call, synth_vars, ui_vars, hubert_fs, hubert_call, fx>>

\* os.makedirs(extraction_folder, exist_ok=True)
InstallMakedirs(p) ==
    /\ installs[p].pc = "makedirs"
    /\ models_fs' = [models_fs EXCEPT ![installs[p].name].exists = TRUE]
    /\ IF installs[p].op = "upload_separate_files" THEN Goto(p, "copy_pth")
       ELSE Goto(p, "extractall")
    /\ UNCHANGED <<zips, mm_call, synth_vars, ui_vars, hubert_fs, hubert_call, fx>>

\* with zipfile.ZipFile(zip_name, 'r') as zip_ref: zip_ref.extractall(...)
InstallExtractAll(p) ==
    /\ installs[p].pc = "extractall"
    /\ LET n == installs[p].name
           z == IF installs[p].op = "download_from_url" THEN zips[n]
                ELSE [exists |-> TRUE, archive |-> OwnArchive(p)]
       IN  IF ~z.exists THEN Ends(p, "FileNotFoundError") /\ UNCHANGED models_fs
           ELSE /\ models_fs' = [models_fs EXCEPT ![n].files = Overwrite(@, z.archive.files)]
                /\ Goto(p, "remove")
    /\ UNCHANGED <<zips, mm_call, synth_vars, ui_vars, hubert_fs, hubert_call, fx>>

\* os.remove(zip_name): the uploaded file is the thread's own, the
\* downloaded one is shared
InstallRemoveZip(p) ==
    /\ installs[p].pc = "remove"
    /\ LET n == installs[p].name
       IN  IF installs[p].op # "download_from_url" THEN Goto(p, "tidy") /\ UNCHANGED zips
           ELSE IF ~zips[n].exists THEN Ends(p, "FileNotFoundError") /\ UNCHANGED zips
           ELSE zips' = [zips EXCEPT ![n] = NoFile] /\ Goto(p, "tidy")
    /\ UNCHANGED <<models_fs, mm_call, synth_vars, ui_vars, hubert_fs, hubert_call, fx>>

\* the rest of extract_zip and the return of the success message
InstallTidy(p) ==
    /\ installs[p].pc = "tidy"
    /\ LET n == installs[p].name
           r == TidyFolder(models_fs[n].files)
       IN  /\ models_fs' = [models_fs EXCEPT ![n].files = r.files]
           /\ Ends(p, r.status)
    /\ UNCHANGED <<zips, mm_call, synth_vars, ui_vars, hubert_fs, hubert_call, fx>>

\* if pth_file: shutil.copyfile(pth_file.name, pth_path)
InstallCopyPth(p) ==
    /\ installs[p].pc = "copy_pth"
    /\ models_fs' = [models_fs EXCEPT ![installs[p].name].files = Overwrite(@, {PthOf(p, "")})]
    /\ Goto(p, "copy_index")
    /\ UNCHANGED <<zips, mm_call, synth_vars, ui_vars, hubert_fs, hubert_call, fx>>

\* if index_file: shutil.copyfile(index_file.name, index_path); return
InstallCopyIndex(p) ==
    /\ installs[p].pc = "copy_index"
    /\ models_fs' = [models_fs EXCEPT ![installs[p].name].files = Overwrite(@, {IndexOf(p, "")})]
    /\ Ends(p, "ok")
    /\ UNCHANGED <<zips, mm_call, synth_vars, ui_vars, hubert_fs, hubert_call, fx>>

NextRace ==
    \/ \E p \in Threads, n \in ModelNames :
          \E op \in {"download_from_url", "upload_zip_model", "upload_separate_files"} :
             InstallBegin(p, op, n)
    \/ \E p \in Threads : InstallExists(p)
    \/ \E p \in Threads : InstallDownloadFile(p)
    \/ \E p \in Threads : InstallMakedirs(p)
    \/ \E p \in Threads : InstallExtractAll(p)
    \/ \E p \in Threads : InstallRemoveZip(p)
    \/ \E p \in Threads : InstallTidy(p)
    \/ \E p \in Threads : InstallCopyPth(p)
    \/ \E p \in Threads : InstallCopyIndex(p)

----------------------------------------------------------------------------
(* HuBERT installer: src/src/modules/download_hubert.py.  Each action is   *)
(* one call of download_and_replace_model; a file is the sequence of the   *)
(* blocks written to it, each tagged with the model it was read from.      *)

\* the table `models`: description offered in the dropdown -> file name
models ==
    [d \in {"Standard", "Improved standard", "Korean base", "Chinese base",
             "Chinese large", "Japanese base", "Japanese large"} |->
        CASE d = "Standard"          -> "hubert_base.pt"
          [] d = "Improved standard" -> "contentvec_base.pt"
          [] d = "Korean base"       -> "korean_hubert_base.pt"
          [] d = "Chinese base"      -> "chinese_hubert_base.pt"
          [] d = "Chinese large"     -> "chinese_hubert_large.pt"
          [] d = "Japanese base"     -> "japanese_hubert_base.pt"
          [] d = "Japanese large"    -> "japanese_hubert_large.pt"]

\* the complete file of a model
FullFile(name) == [k \in 1..MaxChunks |-> name]

\* files of rvc_models_dir are inodes; a path names an inode or nothing
NoInode == 0

\* out_file.write of block k through a descriptor that has its own offset
WriteAt(content, k, tag) ==
    IF k <= Len(content) THEN [content EXCEPT ![k] = tag]
    ELSE content \o [j \in 1..(k - Len(content) - 1) |-> "hole"] \o <<tag>>

\* what open(hubert_base_path, 'rb').read() returns
HubertFile ==
    IF hubert_fs.base = NoInode THEN <<"missing">> ELSE hubert_fs.data[hubert_fs.base]

IdleDownload ==
    [pc |-> "idle", desc |-> "None", fd |-> NoInode, off |-> 0, status |-> "none",
     before |-> <<>>, alone |-> TRUE, failed |-> FALSE]

InitHubert ==
    /\ hubert_fs = [tmp |-> NoInode, base |-> 1,
                    data |-> [k \in 1..(1 + Cardinality(Threads)) |-> IF k = 1 THEN FullFile("hubert_base.pt")
                                               ELSE <<>>]]
    /\ hubert_call = [p \in Threads |-> IdleDownload]

\* variant: the old file is removed before the new one is downloaded
StepAfter_RemoveFirst(pc) ==
    CASE pc = "lookup"  -> "exists"
      [] pc = "exists"  -> "remove"
      [] pc = "remove"  -> "urlopen"
      [] pc = "urlopen" -> "open"
      [] pc = "open"    -> "copy"
      [] pc = "copy"    -> "rename"
      [] pc = "rename"  -> "done"

\* the order of the statements of download_and_replace_model
StepAfter(pc) ==
    CASE pc = "lookup"  -> "urlopen"
      [] pc = "urlopen" -> "open"
      [] pc = "open"    -> "copy"
      [] pc = "copy"    -> "exists"
      [] pc = "exists"  -> "remove"
      [] pc = "remove"  -> "rename"
      [] pc = "rename"  -> "done"

Running(c) == c.pc \notin {"idle", "done"}

HubertGoto(p, pc) == hubert_call' = [hubert_call EXCEPT ![p].pc = pc]
HubertRaise(p, e) ==
    hubert_call' = [hubert_call EXCEPT ![p].pc = "done", ![p].status = e, ![p].fd = NoInode]

\* hubert_download_btn.click: the call starts in a request thread
HubertClick(p, model_desc) ==
    /\ hubert_call[p].pc = "idle"
    /\ hubert_call' =
          [q \in Threads |->
             IF q = p
             THEN [IdleDownload EXCEPT !.pc = "lookup", !.desc = model_desc,
                                       !.status = "running", !.before = HubertFile,
                                       !.alone = \A r \in Threads \ {p} : ~Running(hubert_call[r])]
             ELSE IF Running(hubert_call[q]) THEN [hubert_call[q] EXCEPT !.alone = FALSE]
             ELSE hubert_call[q]]
    /\ UNCHANGED <<hubert_fs, installs, fx, synth_vars, mm_vars, ui_vars>>

\* model_name = models[model_desc]
HubertLookup(p) ==
    /\ hubert_call[p].pc = "lookup"
    /\ IF hubert_call[p].desc \in DOMAIN models THEN HubertGoto(p, StepAfter("lookup"))
       ELSE HubertRaise(p, "KeyError")
    /\ UNCHANGED <<hubert_fs, installs, fx, synth_vars, mm_vars, ui_vars>>

\* urllib.request.urlopen(model_url): answers or raises
HubertUrlOpen(p, answers) ==
    /\ hubert_call[p].pc = "urlopen"
    /\ IF answers THEN HubertGoto(p, StepAfter("urlopen"))
       ELSE hubert_call' = [hubert_call EXCEPT ![p].pc = "done", ![p].status = "URLError",
                                               ![p].failed = TRUE]
    /\ UNCHANGED <<hubert_fs, installs, fx, synth_vars, mm_vars, ui_vars>>

\* open(tmp_model_path, 'wb'): creates tmp_model.pt or truncates the one there
HubertOpenTmp(p) ==
    /\ hubert_call[p].pc = "open"
    /\ LET ino == IF hubert_fs.tmp = NoInode THEN p + 1 ELSE hubert_fs.tmp
       IN  /\ hubert_fs' = [hubert_fs EXCEPT !.tmp = ino, !.data[ino] = <<>>]
           /\ hubert_call' = [hubert_call EXCEPT ![p].pc = StepAfter("open"),
                                                   ![p].fd = ino, ![p].off = 0]
    /\ UNCHANGED <<installs, fx, synth_vars, mm_vars, ui_vars>>

\* shutil.copyfileobj(response, out_file), one block; the connection may
\* break before the block arrives; the file is closed after the last one
HubertCopy(p, arrives) ==
    /\ hubert_call[p].pc = "copy"
    /\ LET c == hubert_call[p]
       IN  IF ~arrives
           THEN /\ hubert_call' = [hubert_call EXCEPT ![p].pc = "done", ![p].fd = NoInode,
                                                       ![p].status = "IncompleteRead",
                                                       ![p].failed = TRUE]
                /\ UNCHANGED hubert_fs
           ELSE /\ hubert_fs' = [hubert_fs EXCEPT
                                    !.data[c.fd] = WriteAt(@, c.off + 1, models[c.desc])]
                /\ hubert_call' =
                      IF c.off + 1 = MaxChunks
                      THEN [hubert_call EXCEPT ![p].pc = StepAfter("copy"), ![p].off = c.off + 1,
                                               ![p].fd = NoInode]
                      ELSE [hubert_call EXCEPT ![p].off = c.off + 1]
    /\ UNCHANGED <<installs, fx, synth_vars, mm_vars, ui_vars>>

\* if os.path.exists(hubert_base_path):
HubertExists(p) ==
    /\ hubert_call[p].pc = "exists"
    /\ IF hubert_fs.base # NoInode THEN HubertGoto(p, StepAfter("exists"))
       ELSE HubertGoto(p, StepAfter("remove"))
    /\ UNCHANGED <<hubert_fs, installs, fx, synth_vars, mm_vars, ui_vars>>

\* os.remove(hubert_base_path)
HubertRemove(p) ==
    /\ hubert_call[p].pc = "remove"
    /\ IF hubert_fs.base = NoInode
       THEN HubertRaise(p, "FileNotFoundError") /\ UNCHANGED hubert_fs
       ELSE /\ hubert_fs' = [hubert_fs EXCEPT !.base = NoInode]
            /\ HubertGoto(p, StepAfter("remove"))
    /\ UNCHANGED <<installs, fx, synth_vars, mm_vars, ui_vars>>

\* os.rename(tmp_model_path, hubert_base_path) and the success message
HubertRename(p) ==
    /\ hubert_call[p].pc = "rename"
    /\ IF hubert_fs.tmp = NoInode
       THEN HubertRaise(p, "FileNotFoundError") /\ UNCHANGED hubert_fs
       ELSE /\ hubert_fs' = [hubert_fs EXCEPT !.base = hubert_fs.tmp, !.tmp = NoInode]
            /\ hubert_call' = [hubert_call EXCEPT ![p].pc = StepAfter("rename"),
                                                   ![p].status = "ok"]
    /\ UNCHANGED <<installs, fx, synth_vars, mm_vars, ui_vars>>

NextHubert ==
    \* two of the descriptions, and the dropdown with nothing chosen (None)
    \/ \E p \in Threads, d \in {"Improved standard", "Korean base", "None"} :
          HubertClick(p, d)
    \/ \E p \in Threads : HubertLookup(p)
    \/ \E p \in Threads, answers \in BOOLEAN : HubertUrlOpen(p, answers)
    \/ \E p \in Threads : HubertOpenTmp(p)
    \/ \E p \in Threads, arrives \in BOOLEAN : HubertCopy(p, arrives)
    \/ \E p \in Threads : HubertExists(p)
    \/ \E p \in Threads : HubertRemove(p)
    \/ \E p \in Threads : HubertRename(p)

----------------------------------------------------------------------------
(* Mixing and effect controls: src/CoverGenLite.py.  Values are in tenths. *)

\* gr.Slider(minimum, maximum, value=...) of the 20 controls
FxControls ==
    [c \in {"vocal_gain", "instrumental_gain", "reverb_rm_size", "reverb_width",
             "reverb_wet", "reverb_dry", "reverb_damping", "chorus_rate_hz",
             "chorus_depth", "chorus_centre_delay_ms", "chorus_feedback", "chorus_mix",
             "compressor_ratio", "compressor_threshold", "low_shelf_gain",
             "high_shelf_gain", "noise_gate_threshold", "noise_gate_ratio",
             "noise_gate_attack", "noise_gate_release"} |->
        CASE c = "vocal_gain"             -> [min |-> -100, max |-> 100,   value |-> 0]
          [] c = "instrumental_gain"      -> [min |-> -100, max |-> 100,   value |-> 0]
          [] c = "reverb_rm_size"         -> [min |-> 0,    max |-> 10,    value |-> 1]
          [] c = "reverb_width"           -> [min |-> 0,    max |-> 10,    value |-> 10]
          [] c = "reverb_wet"             -> [min |-> 0,    max |-> 10,    value |-> 1]
          [] c = "reverb_dry"             -> [min |-> 0,    max |-> 10,    value |-> 7]
          [] c = "reverb_damping"         -> [min |-> 0,    max |-> 10,    value |-> 9]
          [] c = "chorus_rate_hz"         -> [min |-> 1,    max |-> 100,   value |-> 0]
          [] c = "chorus_depth"           -> [min |-> 0,    max |-> 10,    value |-> 0]
          [] c = "chorus_centre_delay_ms" -> [min |-> 0,    max |-> 500,   value |-> 0]
          [] c = "chorus_feedback"        -> [min |-> 0,    max |-> 10,    value |-> 0]
          [] c = "chorus_mix"             -> [min |-> 0,    max |-> 10,    value |-> 0]
          [] c = "compressor_ratio"       -> [min |-> 10,   max |-> 200,   value |-> 40]
          [] c = "compressor_threshold"   -> [min |-> -600, max |-> 0,     value |-> -120]
          [] c = "low_shelf_gain"         -> [min |-> -200, max |-> 200,   value |-> 0]
          [] c = "high_shelf_gain"        -> [min |-> -200, max |-> 200,   value |-> 0]
          [] c = "noise_gate_threshold"   -> [min |-> -600, max |-> 0,     value |-> -400]
          [] c = "noise_gate_ratio"       -> [min |-> 10,   max |-> 200,   value |-> 80]
          [] c = "noise_gate_attack"      -> [min |-> 0,    max |-> 1000,  value |-> 100]
          [] c = "noise_gate_release"     -> [min |-> 0,    max |-> 10000, value |-> 1000]]

FxNames == DOMAIN FxControls

\* variant: the list written in the order process_btn passes the reverb values
default_values_ProcessOrder ==
    <<0, 0, 1, 1, 7, 9, 10, 0, 0, 0, 0, 0, 40, -120, 0, 0, -400, 80, 100, 1000>>

\* default_values = [0, 0, 0.1, 1.0, 0.1, 0.7, 0.9, 0, 0, 0, 0, 0, 4, -12, 0, 0, -40, 8, 10, 100]
default_values ==
    <<0, 0, 1, 10, 1, 7, 9, 0, 0, 0, 0, 0, 40, -120, 0, 0, -400, 80, 100, 1000>>

\* outputs=[...] of clear_btn.click
ClearOutputs ==
    <<"vocal_gain", "instrumental_gain", "reverb_rm_size", "reverb_width", "reverb_wet",
      "reverb_dry", "reverb_damping", "chorus_rate_hz", "chorus_depth",
      "chorus_centre_delay_ms", "chorus_feedback", "chorus_mix", "compressor_ratio",
      "compressor_threshold", "low_shelf_gain", "high_shelf_gain", "noise_gate_threshold",
      "noise_gate_ratio", "noise_gate_attack", "noise_gate_release">>

InitFx ==
    fx = [val |-> [c \in FxNames |-> FxControls[c].value], changes |-> 0, cleared |-> FALSE]

\* the user moves one of the sliders
ChangeFx(c, v) ==
    /\ fx.changes < MaxFxChanges
    /\ fx' = [fx EXCEPT !.val[c] = v, !.changes = @ + 1, !.cleared = FALSE]
    /\ UNCHANGED <<installs, hubert_fs, hubert_call, synth_vars, mm_vars, ui_vars>>

\* clear_btn.click(lambda: default_values, outputs=[...]): the k-th value
\* returned goes to the k-th output
ClearEffects ==
    /\ fx' = [fx EXCEPT
                 !.val = [c \in FxNames |->
                            IF \E k \in 1..Len(ClearOutputs) : ClearOutputs[k] = c
                            THEN default_values[CHOOSE k \in 1..Len(ClearOutputs) :
                                                   ClearOutputs[k] = c]
                            ELSE fx.val[c]],
                 !.cleared = TRUE]
    /\ UNCHANGED <<installs, hubert_fs, hubert_call, synth_vars, mm_vars, ui_vars>>

NextFx ==
    \* a slider is dragged to either end of its range
    \/ \E c \in FxNames : \E v \in {FxControls[c].min, FxControls[c].max} : ChangeFx(c, v)
    \/ ClearEffects

----------------------------------------------------------------------------
(* Conversion controls: src/src/tabs/conversion.py, src/CoverGenLite.py *)

\* gr.Slider(minimum, maximum, value, step), in units of the step:
\* pitch in half semitones, crepe_hop_length in eights, index_rate,
\* rms_mix_rate and protect in hundredths
Sliders ==
    [pitch            |-> [minimum |-> -48, maximum |-> 48,    value |-> 0],
     crepe_hop_length |-> [minimum |-> 1,   maximum |-> 64,    value |-> 16],
     f0_min           |-> [minimum |-> 1,   maximum |-> 100,   value |-> 50],
     f0_max           |-> [minimum |-> 400, maximum |-> 16000, value |-> 1100],
     index_rate       |-> [minimum |-> 0,   maximum |-> 100,   value |-> 0],
     filter_radius    |-> [minimum |-> 0,   maximum |-> 7,     value |-> 3],
     rms_mix_rate     |-> [minimum |-> 0,   maximum |-> 100,   value |-> 25],
     protect          |-> [minimum |-> 0,   maximum |-> 50,    value |-> 33]]

SliderNames == DOMAIN Sliders

\* gr.Dropdown(choices, value, allow_custom_value=False)
F0Methods == {"rmvpe+", "fcpe", "rmvpe", "mangio-crepe", "crepe"}
OutputFormats == {"mp3", "flac", "wav"}

\* positions the user tries to give a slider: its ends and one step beyond
SliderTries(c) ==
    {Sliders[c].minimum - 1, Sliders[c].minimum, Sliders[c].maximum, Sliders[c].maximum + 1}

\* variant: a slider that takes any number typed into its box
SliderAccepts_Any(c, v) == TRUE

\* a slider holds only positions between its minimum and its maximum
SliderAccepts(c, v) == v >= Sliders[c].minimum /\ v <= Sliders[c].maximum

\* ui_updates.update_f0_method(use_hybrid_methods): the new value of the
\* f0_method dropdown, one of the pitch methods the specification lists
UpdateF0Method(use_hybrid_methods) == F0Methods

\* the value of every control when the page is built
InitialControls ==
    [pitch |-> Sliders.pitch.value,
     crepe_hop_length |-> Sliders.crepe_hop_length.value,
     f0_min |-> Sliders.f0_min.value,
     f0_max |-> Sliders.f0_max.value,
     index_rate |-> Sliders.index_rate.value,
     filter_radius |-> Sliders.filter_radius.value,
     rms_mix_rate |-> Sliders.rms_mix_rate.value,
     protect |-> Sliders.protect.value,
     f0_method |-> "rmvpe+",
     output_format |-> "mp3",
     use_hybrid_methods |-> FALSE,
     f0autotune |-> FALSE,
     nchanges |-> 0]

\* the inputs= list of generate_btn.click(conversion, ...)
RequestOf(c) ==
    [pitch |-> c.pitch, index_rate |-> c.index_rate, filter_radius |-> c.filter_radius,
     rms_mix_rate |-> c.rms_mix_rate, f0_method |-> c.f0_method,
     crepe_hop_length |-> c.crepe_hop_length, protect |-> c.protect,
     output_format |-> c.output_format, f0autotune |-> c.f0autotune,
     f0_min |-> c.f0_min, f0_max |-> c.f0_max]

----------------------------------------------------------------------------
(* The conversion request: src/scripts/voice_conversion.conversion is not   *)
(* among the sources; its stages follow section 4.5 of the specification.  *)

Stages ==
    <<"Validated", "Resampled", "FeaturesExtracted", "PitchExtracted",
      "IndexBlended", "Synthesized", "Postprocessed", "Done">>

StageNo(st) == CHOOSE k \in 1..Len(Stages) : Stages[k] = st

\* the request validation of the orchestrator
ValidRequest(r) ==
    /\ r.pitch >= -48 /\ r.pitch <= 48
    /\ r.index_rate >= 0 /\ r.index_rate <= 100
    /\ r.rms_mix_rate >= 0 /\ r.rms_mix_rate <= 100
    /\ r.protect >= 0 /\ r.protect <= 50
    /\ r.filter_radius >= 0
    /\ r.f0_min > 0 /\ r.f0_min < r.f0_max
    /\ r.f0_method \in F0Methods
    /\ r.output_format \in OutputFormats

Idle == [stage |-> "Idle"]

\* a request as it enters the pipeline: nothing loaded, nothing computed,
\* nothing handed back yet
NewRequest(r, from) ==
    [stage |-> "Validated", req |-> r, from |-> from, error |-> "none",
     failed_at |-> "none", result |-> "pending",
     model_loaded |-> FALSE, has_index |-> FALSE, retriever_called |-> FALSE,
     embeddings |-> "none", waveform |-> "none"]

\* variant: the request enters the pipeline unchecked
Conversion_Unchecked(r, from) == NewRequest(r, from)

\* conversion(...) at entry: the request is validated before anything else
Conversion(r, from) ==
    IF ValidRequest(r) THEN NewRequest(r, from)
    ELSE [NewRequest(r, from) EXCEPT !.stage = "Failed",
                                     !.error = "InvalidParameter",
                                     !.result = "ConversionError"]

\* variant: with index rate 0 the blending stage is left out
Advance_SkipBlend(c, idx) ==
    LET k   == StageNo(c.stage)
        nxt == IF Stages[k + 1] = "IndexBlended" /\ c.req.index_rate = 0
               THEN Stages[k + 2] ELSE Stages[k + 1]
    IN  [c EXCEPT !.stage = nxt,
                  !.model_loaded = TRUE,
                  !.has_index = IF nxt = "Resampled" THEN idx ELSE @,
                  !.embeddings = IF nxt = "FeaturesExtracted" THEN "encoded" ELSE @,
                  !.waveform = IF nxt = "Synthesized" THEN "raw"
                               ELSE IF nxt = "Postprocessed" THEN "mixed" ELSE @]

\* variant: the retriever is invoked whatever the index rate
Advance_AlwaysBlend(c, idx) ==
    LET nxt == Stages[StageNo(c.stage) + 1]
    IN  [c EXCEPT !.stage = nxt,
                  !.model_loaded = TRUE,
                  !.has_index = IF nxt = "Resampled" THEN idx ELSE @,
                  !.retriever_called = @ \/ nxt = "IndexBlended",
                  !.embeddings = IF nxt = "FeaturesExtracted" THEN "encoded"
                                 ELSE IF nxt = "IndexBlended" /\ c.has_index
                                      THEN "blended" ELSE @,
                  !.waveform = IF nxt = "Synthesized" THEN "raw"
                               ELSE IF nxt = "Postprocessed" THEN "mixed" ELSE @]

\* the next stage of the pipeline.  The voice model is loaded for
\* resampling, with its index store (idx) or without; the content
\* embeddings exist from feature extraction on; the retriever is invoked
\* only for a positive index rate and blends only when there is an index;
\* synthesis gives the raw waveform, postprocessing the mixed one
Advance(c, idx) ==
    LET nxt == Stages[StageNo(c.stage) + 1]
    IN  [c EXCEPT !.stage = nxt,
                  !.model_loaded = TRUE,
                  !.has_index = IF nxt = "Resampled" THEN idx ELSE @,
                  !.retriever_called = @ \/ (nxt = "IndexBlended" /\ c.req.index_rate > 0),
                  !.embeddings = IF nxt = "FeaturesExtracted" THEN "encoded"
                                 ELSE IF nxt = "IndexBlended" /\ c.req.index_rate > 0
                                         /\ c.has_index
                                      THEN "blended" ELSE @,
                  !.waveform = IF nxt = "Synthesized" THEN "raw"
                               ELSE IF nxt = "Postprocessed" THEN "mixed" ELSE @]

\* variant: what has been synthesized so far is handed back with the error
Fail_KeepsWaveform(c, err) ==
    [c EXCEPT !.stage = "Failed", !.error = err, !.failed_at = c.stage,
              !.result = IF c.waveform = "none" THEN "ConversionError" ELSE "AudioBuffer"]

\* an exception inside a stage: the request fails with a typed error, what
\* had been synthesized is dropped
Fail(c, err) ==
    [c EXCEPT !.stage = "Failed", !.error = err, !.failed_at = c.stage,
              !.waveform = "none", !.result = "ConversionError"]

\* the finished request hands its audio back to the caller
Finish(c) == [c EXCEPT !.result = "AudioBuffer"]

StageErrors == {"ModelNotFound", "ModelUnavailable", "ShapeMismatch", "ResourceExhausted"}

\* requests a caller other than the page can send: the defaults with one
\* parameter out of range
DirectRequests ==
    LET d == RequestOf(InitialControls)
    IN  { d, [d EXCEPT !.index_rate = 150], [d EXCEPT !.pitch = 50],
          [d EXCEPT !.protect = 60], [d EXCEPT !.f0_min = 2000] }

InitUI == ctl = InitialControls /\ conv = Idle

\* the user moves a slider
ChangeSlider(c, v) ==
    /\ conv.stage = "Idle"
    /\ ctl.nchanges < MaxChanges
    /\ ctl' = IF SliderAccepts(c, v)
              THEN [ctl EXCEPT ![c] = v, !.nchanges = @ + 1]
              ELSE [ctl EXCEPT !.nchanges = @ + 1]
    /\ UNCHANGED <<conv, synth_vars, mm_vars, page_vars>>

\* the user picks an entry of a dropdown
ChangeDropdown(c, v) ==
    /\ conv.stage = "Idle"
    /\ ctl.nchanges < MaxChanges
    /\ ctl' = [ctl EXCEPT ![c] = v, !.nchanges = @ + 1]
    /\ UNCHANGED <<conv, synth_vars, mm_vars, page_vars>>

\* use_hybrid_methods.change(update_f0_method, ..., outputs=f0_method)
ToggleHybrid ==
    /\ conv.stage = "Idle"
    /\ ctl.nchanges < MaxChanges
    /\ \E m \in UpdateF0Method(~ctl.use_hybrid_methods) :
          ctl' = [ctl EXCEPT !.use_hybrid_methods = ~@, !.f0_method = m,
                             !.nchanges = @ + 1]
    /\ UNCHANGED <<conv, synth_vars, mm_vars, page_vars>>

\* generate_btn.click(conversion, inputs=[...])
Generate ==
    /\ conv.stage = "Idle"
    /\ conv' = Conversion(RequestOf(ctl), "ui")
    /\ UNCHANGED <<ctl, synth_vars, mm_vars, page_vars>>

\* conversion called by another caller
ConvertDirect(r) ==
    /\ conv.stage = "Idle"
    /\ conv' = Conversion(r, "direct")
    /\ UNCHANGED <<ctl, synth_vars, mm_vars, page_vars>>

\* the request moves on to its next stage
StageStep ==
    /\ conv.stage \notin {"Idle", "Done", "Failed"}
    /\ \E idx \in BOOLEAN : conv' = Advance(conv, idx)
    /\ UNCHANGED <<ctl, synth_vars, mm_vars, page_vars>>

\* a stage raises; a request that has handed back its audio is over
StageFail(err) ==
    /\ conv.stage \notin {"Idle", "Failed"}
    /\ conv.result = "pending"
    /\ conv' = Fail(conv, err)
    /\ UNCHANGED <<ctl, synth_vars, mm_vars, page_vars>>

\* conversion returns
Return ==
    /\ conv.stage = "Done"
    /\ conv.result = "pending"
    /\ conv' = Finish(conv)
    /\ UNCHANGED <<ctl, synth_vars, mm_vars, page_vars>>

NextUI ==
    \/ \E c \in SliderNames : \E v \in SliderTries(c) : ChangeSlider(c, v)
    \/ \E v \in F0Methods : ChangeDropdown("f0_method", v)
    \/ \E v \in OutputFormats : ChangeDropdown("output_format", v)
    \/ ToggleHybrid
    \/ Generate
    \/ \E r \in DirectRequests : ConvertDirect(r)
    \/ StageStep
    \/ \E e \in StageErrors : StageFail(e)
    \/ Return

Init == InitSynth /\ InitMM /\ InitUI /\ InitHubert /\ InitFx

\* the conversion page and the request it issues
SpecUI == Init /\ [][NextUI]_vars
\* the model installers
SpecMM == Init /\ [][NextMM]_vars
\* the model installers in concurrent request threads
SpecRace == Init /\ [][NextRace]_vars
\* the HuBERT installer in concurrent request threads
SpecHubert == Init /\ [][NextHubert]_vars
\* the mixing and effect controls and their reset button
SpecFx == Init /\ [][NextFx]_vars
\* the synthesizer under infer calls
SpecInfer == Init /\ [][NextInfer]_vars
\* the generators called directly
SpecDec == Init /\ [][NextDec]_vars
\* the sine generator called directly
SpecSine == Init /\ [][NextSine]_vars
\* the flow called directly, forward and back
SpecFlow == Init /\ [][NextFlow]_vars

----------------------------------------------------------------------------
(* Claims about the synthesizer *)

IsInfer == call.op = "infer"
Returned == call.status = "ok"

\* C1: when the pitch sequence and the content sequence differ in length,
\* infer raises instead of returning a waveform, and whenever it returns it
\* has dropped the same number of frames from both.
C1_MismatchIsFatal ==
    IsInfer =>
        /\ (call.T # call.P => ~Returned)
        /\ (Returned => call.T - Len(call.z_p) = call.P - Len(call.nsff0))

\* the last n positions of a sequence of length T
LastIdx(T, n) == Strict([t \in 1..n |-> T - n + t])

\* C2: with a rate in (0, 1] and pitch as long as the content, the latent,
\* the mask and the pitch handed on have exactly int(T * rate) frames each,
\* and they are the last frames of the input.
C2_KeepsLastFraction ==
    (IsInfer /\ call.inp.rate.given /\ call.inp.rate.num > 0
        /\ call.inp.rate.num <= call.inp.rate.den /\ call.T = call.P) =>
        LET h == IntTrunc(call.T * call.inp.rate.num, call.inp.rate.den)
        IN  /\ Idx(call.z_p) = LastIdx(call.T, h)
            /\ Idx(call.x_mask) = LastIdx(call.T, h)
            /\ Idx(call.nsff0) = LastIdx(call.T, h)

\* C3: when infer truncates and latent, mask and pitch had the same length,
\* the three keep exactly the same frame positions.
C3_SlicedAlike ==
    (IsInfer /\ call.truncated /\ call.T = call.P) =>
        /\ Idx(call.z_p) = Idx(call.x_mask)
        /\ Idx(call.z_p) = Idx(call.nsff0)

\* a call that cut a proper, non-empty tail off three equally long tensors
C3_Witness ==
    /\ IsInfer /\ call.truncated /\ call.T = call.P /\ Returned
    /\ Len(call.z_p) > 0 /\ Len(call.z_p) < call.T
    /\ Idx(call.nsff0) = LastIdx(call.T, Len(call.z_p))

\* C4: GeneratorNSF.forward on T latent frames (and T pitch frames) returns
\* a waveform whose length is within one hop (upp samples) of T * upp, for
\* every configuration the constructor accepted.
C4_LengthWithinOneHop ==
    (call.op = "nsf_forward" /\ call.T = call.P) =>
        /\ Returned
        /\ Abs(Len(call.o) - call.T * dec.upp) < dec.upp

\* C5: every sample returned by Generator.forward and GeneratorNSF.forward
\* lies in [-1, 1].
C5_SamplesBounded ==
    (call.op \in {"nsf_forward", "gen_forward"} /\ Returned) =>
        \A j \in 1..Len(call.o) : call.o[j] >= -1 /\ call.o[j] <= 1

\* a returned waveform that reaches both ends of the range
C5_Witness ==
    /\ call.op \in {"nsf_forward", "gen_forward"} /\ Returned
    /\ \E j \in 1..Len(call.o) : call.o[j] = 1
    /\ \E j \in 1..Len(call.o) : call.o[j] = -1

----------------------------------------------------------------------------
(* Claims about model management *)

Installers == {"download_from_url", "upload_zip_model", "upload_separate_files"}

\* C8: an installer called with a model name whose directory already exists
\* raises the 'already exists' error and changes neither the directory tree
\* nor the zip files on disk, and the uploaded file is not consumed.
C8_ExistingNameRefused ==
    [][(mm_call'.op \in Installers /\ models_fs[mm_call'.name].exists) =>
        /\ mm_call'.status = AlreadyExists
        /\ models_fs' = models_fs
        /\ zips' = zips]_vars

\* an install refused because the model is there, its files untouched
C8_Witness ==
    /\ mm_call.op \in Installers
    /\ mm_call.status = AlreadyExists
    /\ \E f \in models_fs[mm_call.name].files : f.ext = "pth"

\* the installers that go through extract_zip
ZipInstallers == {"download_from_url", "upload_zip_model"}

\* the call failed after the existence check had let it through
InstallFailed == mm_call.op \in ZipInstallers /\ mm_call.status \notin {"ok", AlreadyExists}

\* C21: a download_from_url or upload_zip_model call that fails (download
\* error, unsupported host, invalid zip, no .pth over 40 MB) leaves no
\* directory for the model name: it can be installed again and
\* update_models_list does not list it.
C21_FailedInstallLeavesNoFolder ==
    InstallFailed =>
        /\ ~models_fs[mm_call.name].exists
        /\ mm_call.name \notin GetFolders

\* extract_zip ran in the last call: the existence check passed, there was a
\* file object to read the name from and the download did not raise
ExtractZipRan ==
    /\ mm_call.op \in ZipInstallers
    /\ mm_call.status \notin {AlreadyExists, "AttributeError", "DownloadError"}

BigModel(f) == f.ext = "pth" /\ f.kb > ModelMinKB
BigIndex(f) == f.ext = "index" /\ f.kb > IndexMinKB

\* C25: after extract_zip returns normally the zip file is gone, the model
\* directory has no sub-folders and holds at top level a .pth over 40 MB
\* and, if the archive had one, the .index over 100 KB, wherever they were
\* in the archive; an archive without a .pth over 40 MB makes it raise.
C25_ExtractZipTidiesFolder ==
    ExtractZipRan =>
        LET d == models_fs[mm_call.name]
            a == mm_call.archive
        IN  /\ mm_call.status = "ok" =>
                  /\ ~mm_call.zip_left
                  /\ mm_call.op = "download_from_url" => ~zips[mm_call.name].exists
                  /\ \A f \in d.files : f.dir = ""
                  /\ \E f \in d.files : BigModel(f) /\ \E g \in a.files : BigModel(g) /\ g.base = f.base
                  /\ (\E x \in a.files : BigIndex(x)) =>
                        \E f \in d.files : BigIndex(f) /\ \E x \in a.files : BigIndex(x) /\ x.base = f.base
            /\ (\A f \in a.files : ~BigModel(f)) => mm_call.status # "ok"

\* an archive with everything in a sub-folder, extracted and tidied
C25_Witness ==
    /\ ExtractZipRan /\ mm_call.status = "ok"
    /\ \A f \in mm_call.archive.files : f.dir # ""
    /\ \E f \in mm_call.archive.files : BigIndex(f)
    /\ \E f \in mm_call.archive.files : f.ext = "txt"

\* C26: upload_separate_files returns the success message only when a .pth
\* file has been copied into the new model directory.
C26_SuccessNeedsModelFile ==
    (mm_call.op = "upload_separate_files" /\ mm_call.status = "ok") =>
        \E f \in models_fs[mm_call.name].files : f.ext = "pth"

\* the thread whose install a file of a model folder came from
Owner(f) == IF f.base \in {"m1", "x1"} THEN 1 ELSE 2

\* C22: when two installs for the same model name run concurrently, under
\* every interleaving at most one of them reports success and the model
\* directory ends up with the files of exactly one of them, never a mixture.
C22_OneInstallWins ==
    \A p, q \in Threads :
        (/\ p # q
         /\ installs[p].pc = "done" /\ installs[q].pc = "done"
         /\ installs[p].name = installs[q].name) =>
            /\ ~(installs[p].status = "ok" /\ installs[q].status = "ok")
            /\ \A f, g \in models_fs[installs[p].name].files : Owner(f) = Owner(g)

----------------------------------------------------------------------------
(* Claims about the HuBERT installer *)

IsFull(content) == \E d \in DOMAIN models : content = FullFile(models[d])

\* C23: while download_and_replace_model runs, alone or concurrently,
\* hubert_base.pt is at every moment a complete model file (never missing,
\* never partly written), every invocation whose download went through
\* ends without error, and when all have finished the file is the full
\* file of one of the requested models.
C23_HubertAlwaysComplete ==
    /\ hubert_fs.base # NoInode
    /\ IsFull(HubertFile)
    /\ \A p \in Threads :
          (/\ hubert_call[p].pc = "done" /\ ~hubert_call[p].failed
           /\ hubert_call[p].desc \in DOMAIN models) => hubert_call[p].status = "ok"
    /\ ((\A p \in Threads : ~Running(hubert_call[p])) /\
        (\E p \in Threads : hubert_call[p].status = "ok")) =>
          \E p \in Threads :
              /\ hubert_call[p].status = "ok"
              /\ HubertFile = FullFile(models[hubert_call[p].desc])

\* the step ends the call of thread p, which overlapped no other call and
\* either met a download failure or had a description outside the table
EndsFailedAlone(p) ==
    /\ Running(hubert_call[p]) /\ hubert_call'[p].pc = "done"
    /\ hubert_call'[p].alone
    /\ hubert_call'[p].failed \/ hubert_call'[p].desc \notin DOMAIN models

\* C24: if download_and_replace_model fails while downloading, or is given
\* a description that is not in the models table, hubert_base.pt is what it
\* was before the call and no success message is returned.
C24_FailureKeepsHubert ==
    [][\A p \in Threads :
          EndsFailedAlone(p) =>
              /\ HubertFile' = hubert_call'[p].before
              /\ hubert_call'[p].status # "ok"]_vars

\* a download that broke off half way, after an earlier call had replaced
\* the shipped file: the replaced file is still there, whole
C24_Witness ==
    \E p \in Threads :
        /\ hubert_call[p].pc = "done" /\ hubert_call[p].alone
        /\ hubert_call[p].status = "IncompleteRead" /\ hubert_call[p].off > 0
        /\ hubert_call[p].before # FullFile("hubert_base.pt")
        /\ HubertFile = hubert_call[p].before

----------------------------------------------------------------------------
(* Claims about the effect controls *)

\* C27: the 'reset all effects' button, after any sequence of changes, sets
\* each of the 20 mixing and effect controls back to the value it had at
\* startup, each value going to its own control.
C27_ClearRestoresStartup ==
    fx.cleared =>
        /\ Cardinality(FxNames) = 20
        /\ \A c \in FxNames : fx.val[c] = FxControls[c].value

\* the button pressed after two sliders were moved off their startup value
C27_Witness ==
    /\ fx.cleared /\ fx.changes >= 2

----------------------------------------------------------------------------
(* Claims about the conversion request *)

FromUI == conv.stage # "Idle" /\ conv.from = "ui"

C10_InvalidRejectedFirst ==
    (conv.stage # "Idle" /\ ~ValidRequest(conv.req)) =>
        /\ conv.stage = "Failed"
        /\ conv.error = "InvalidParameter"
        /\ ~conv.model_loaded
        /\ conv.waveform = "none"

\* the request with index_rate = 1.5, rejected
C10_Witness ==
    /\ conv.stage = "Failed" /\ conv.error = "InvalidParameter"
    /\ conv.req.index_rate = 150 /\ ~conv.model_loaded

\* the stages of the pipeline
InPipeline == { Stages[k] : k \in 1..Len(Stages) }

\* C11: a request in which a stage raised is in Failed with a typed error
\* and the caller gets an error, never audio; audio is handed back only by
\* a request that is Done, and then it is the postprocessed waveform.
C11_FailureReturnsNoAudio ==
    /\ conv.stage = "Failed" =>
          /\ conv.error # "none"
          /\ conv.result = "ConversionError"
          /\ conv.waveform = "none"
    /\ (conv.stage # "Idle" /\ conv.result = "AudioBuffer") =>
          conv.stage = "Done" /\ conv.waveform = "mixed"

\* a request that failed after the raw waveform had been synthesized
C11_Witness ==
    /\ conv.stage = "Failed" /\ conv.failed_at = "Synthesized"
    /\ conv.error = "ResourceExhausted"
    /\ conv.result = "ConversionError" /\ conv.waveform = "none"

\* C12: a request moves from each stage only to the stage that follows it
\* in Validated, Resampled, FeaturesExtracted, PitchExtracted,
\* IndexBlended, Synthesized, Postprocessed, Done, or to Failed; it enters
\* the pipeline at Validated; and in each of the eight stages, as long as
\* nothing has been returned, a failure can take it to Failed.
C12_StagesInOrder ==
    [][/\ conv'.stage # conv.stage =>
            \/ conv.stage = "Idle" /\ conv'.stage \in {"Validated", "Failed"}
            \/ conv.stage \in InPipeline /\ conv'.stage = "Failed"
            \/ /\ conv.stage \in InPipeline \ {"Done"}
               /\ conv'.stage = Stages[StageNo(conv.stage) + 1]
       /\ (conv.stage \in InPipeline /\ conv.result = "pending")
            => ENABLED StageFail("ShapeMismatch")]_vars

\* a request that went through all the stages and returned its audio
C12_Witness ==
    /\ conv.stage = "Done" /\ conv.result = "AudioBuffer"
    /\ conv.model_loaded /\ conv.embeddings # "none" /\ conv.waveform = "mixed"

\* C13: from the blending stage on, a request with index_rate = 0 has not
\* invoked the retriever and its content embeddings are those the encoder
\* produced, as for a request whose model has no index.
C13_ZeroRateSkipsRetriever ==
    conv.stage \in {"IndexBlended", "Synthesized", "Postprocessed", "Done"} =>
        /\ conv.req.index_rate = 0 =>
              ~conv.retriever_called /\ conv.embeddings = "encoded"
        /\ ~conv.has_index => conv.embeddings = "encoded"

\* a request of the page with the slider at 0, for a model that has an
\* index, past the blending stage
C13_Witness ==
    /\ conv.stage = "Synthesized" /\ conv.from = "ui"
    /\ conv.req.index_rate = 0 /\ conv.has_index
    /\ ~conv.retriever_called /\ conv.embeddings = "encoded"

----------------------------------------------------------------------------
(* Claims about the generator stages, the flow and the excitation *)

IsNSF == call.op = "nsf_forward"
IsGen == call.op = "gen_forward"

\* C14: noise_convs[i] downsamples the excitation by the product of the
\* upsample rates of the stages after i (1 for the last stage), and in every
\* forward call on T latent and T pitch frames the resampled excitation has,
\* at every stage, as many samples as the latent after ups[i], so that the
\* call returns.
C14_ExcitationMatchesStage ==
    /\ dec.built =>
        \A i \in 1..dec.num_upsamples :
            dec.noise_convs[i].stride =
                Prod(SubSeq(dec.cfg.upsample_rates, i + 1, dec.num_upsamples))
    /\ (IsNSF /\ call.T = call.P) =>
        /\ Returned
        /\ Len(call.stages) = dec.num_upsamples
        /\ \A s \in 1..Len(call.stages) :
              call.stages[s].nz_len = call.stages[s].up_len

\* the number of times op occurs in a sequence of calls
Count(ops, op) == Cardinality({ k \in 1..Len(ops) : ops[k] = op })

\* C15 as stated: with g given, every iteration of the upsampling loop of
\* GeneratorNSF.forward adds the speaker conditioning.
C15_CondAtEveryStage ==
    (IsNSF /\ Returned /\ call.g # NoG) =>
        \A s \in 1..Len(call.stages) : Count(call.stages[s].ops, "cond") = 1

\* C15 amended: with g given, GeneratorNSF.forward adds cond(g) exactly
\* once, after conv_pre and before the first iteration of the upsampling
\* loop, and no iteration adds it again; with g = None it is never added.
C15_CondOnceBeforeLoop ==
    IsNSF =>
        /\ Count(call.pre_ops, "cond") = (IF call.g = NoG THEN 0 ELSE 1)
        /\ (call.g # NoG => call.pre_ops[Len(call.pre_ops)] = "cond")
        /\ \A s \in 1..Len(call.stages) : Count(call.stages[s].ops, "cond") = 0

\* a conditioned call that went through two upsampling stages
C15_Witness ==
    /\ IsNSF /\ Returned /\ call.g # NoG
    /\ Len(call.stages) = 2
    /\ Len(call.o) > 0

\* the sum of the outputs of the residual blocks bs on the value v
RECURSIVE BlockSum(_, _)
BlockSum(bs, v) ==
    IF bs = <<>> THEN 0 ELSE ResBlock(Head(bs), v) + BlockSum(Tail(bs), v)

\* C20: in both generators stage i (0-based) uses exactly the residual
\* blocks i * num_kernels .. i * num_kernels + num_kernels - 1, each on the
\* same stage input, and its output is their sum divided by num_kernels;
\* every block that was built is used exactly once and no index is out of
\* range.
C20_ResblocksPerStage ==
    ((IsNSF \/ IsGen) /\ Returned) =>
        /\ \A s \in 1..Len(call.stages) :
              LET st == call.stages[s]
              IN  /\ st.blocks = [j \in 1..num_kernels |-> (s - 1) * num_kernels + (j - 1)]
                  /\ \A j \in 1..Len(st.blocks) :
                        st.blocks[j] >= 0 /\ st.blocks[j] < call.resblocks
                  /\ Len(st.x) = Len(st.xin)
                  /\ \A t \in 1..Len(st.x) :
                        st.x[t] = BlockSum(st.blocks, st.xin[t]) \div num_kernels
        /\ \A b \in 0..(call.resblocks - 1) :
              Cardinality({ sj \in (1..Len(call.stages)) \X (1..num_kernels) :
                                call.stages[sj[1]].blocks[sj[2]] = b }) = 1

\* a returned call that went through two stages, the second on blocks 2, 3
C20_Witness ==
    /\ IsNSF /\ Returned
    /\ Len(call.stages) = 2 /\ call.resblocks = 2 * num_kernels
    /\ call.stages[2].blocks = <<2, 3>>
    /\ Len(call.stages[2].x) > 0

\* C16: the flow list alternates coupling layer and flip, 2 * n_flows steps
\* in all; with reverse = False the steps run in list order, with reverse =
\* True in exactly the opposite order, and every step is called with the
\* reverse flag of the block.
C16_ReverseWalksBackwards ==
    call.op = "flow" =>
        /\ Len(call.steps) = 2 * n_flows
        /\ \A j \in 1..Len(call.steps) :
              /\ call.steps[j].reverse = call.reverse
              /\ call.steps[j].pos = (IF call.reverse THEN 2 * n_flows + 1 - j ELSE j)
              /\ call.steps[j].kind =
                    (IF call.steps[j].pos % 2 = 1 THEN "coupling" ELSE "flip")

\* a reverse run: it starts with the flip at the end of the list and ends
\* with the first coupling layer
C16_Witness ==
    /\ call.op = "flow" /\ call.reverse
    /\ call.steps[1].pos = 2 * n_flows /\ call.steps[1].kind = "flip"
    /\ call.steps[2 * n_flows].pos = 1 /\ call.steps[2 * n_flows].kind = "coupling"
    /\ call.out # call.x

\* C17: the flow applied in one mode and then in the other, with the same
\* mask and conditioning, gives back the original latent on every frame on
\* which each step's reverse mode undoes its forward mode (the valid frames,
\* and masked frames whose latent is zero).
C17_RoundTrip ==
    (call.op = "flow" /\ call.chained) =>
        \A t \in 1..Len(call.orig) :
            (call.x_mask[t] = 1 \/ call.orig[t] = <<0, 0>>) =>
                call.out[t] = call.orig[t]

\* forward then reverse on a latent with valid frames the flow had changed
C17_Witness ==
    /\ call.op = "flow" /\ call.chained /\ call.reverse
    /\ \E t \in 1..Len(call.orig) :
          call.x_mask[t] = 1 /\ call.x[t] # call.orig[t] /\ call.out[t] = call.orig[t]

\* C18: in infer every valid frame of z_p is mean + exp(log_std) * noise *
\* 0.66666, and every frame past phone_lengths is zero in z_p and in the
\* decoder input z * x_mask.
C18_MaskedFramesZero ==
    IsInfer =>
        LET enc == TextEncoderForward(call.inp.T, call.inp.plen)
        IN  \A j \in 1..Len(call.z_p) :
                LET t == call.z_p[j].i
                IN  /\ t > call.inp.plen =>
                          call.z_p[j].v = <<0, 0>> /\ call.dec_in[j] = <<0, 0>>
                    /\ t <= call.inp.plen =>
                          \A c \in 1..2 :
                              call.z_p[j].v[c] =
                                  enc.m[t][c] + Exp(enc.logs[t][c])
                                      * IntTrunc(Randn(call.inp.seed, 2 * (t - 1) + c) * 66666,
                                                 100000)

\* a returned call whose last content frame is past phone_lengths
C18_Witness ==
    /\ IsInfer /\ Returned /\ call.inp.plen < call.inp.T
    /\ \E j \in 1..Len(call.z_p) : call.z_p[j].i > call.inp.plen
    /\ \E j \in 1..Len(call.z_p) : call.z_p[j].v # <<0, 0>>

\* C19: a frame is voiced exactly when its f0 is above voiced_threshold;
\* each output sample carries the flag of the frame it was upsampled from;
\* on unvoiced frames the output is noise of amplitude sine_amp / 3 only, on
\* voiced frames the sine plus noise of amplitude noise_std.
C19_VoicedIffPositive ==
    call.op = "sine" =>
        /\ Len(call.out) = Len(call.f0) * call.upp
        /\ \A k \in 1..Len(call.out) :
              LET fr == call.f0[((k - 1) \div call.upp) + 1]
                  s  == call.out[k]
              IN  /\ s.uv = (IF fr > 0 THEN 1 ELSE 0)
                  /\ fr <= 0 =>
                        /\ s.noise = (sine_amp \div 3) * Randn(call.seed, k)
                        /\ s.sine_waves = s.noise
                  /\ fr > 0 =>
                        /\ s.noise = noise_std * Randn(call.seed, k)
                        /\ s.sine_waves = SinAt(k) * sine_amp + s.noise

\* a pitch curve with a voiced frame, a frame at f0 = 0 and a negative one,
\* upsampled by more than 1
C19_Witness ==
    /\ call.op = "sine" /\ call.upp > 1
    /\ \E a, b, c \in 1..Len(call.f0) :
          call.f0[a] > 0 /\ call.f0[b] = 0 /\ call.f0[c] < 0

====
